---- MODULE Spec2Model ----
(***************************************************************************)
(* A model of extract_errors.py: the classifier (extract_error_type), the  *)
(* file scanner (parse_jsonl_for_errors) and the aggregator (main).        *)
(*                                                                         *)
(* Text is text: a log line, a message, a timestamp and a category label   *)
(* are strings, read character by character (SubSeq on a string).  Parsed  *)
(* JSON is a tagged tree: Str, Num, Bool, Null, List, Obj.  A call that    *)
(* may raise returns [exc, val]: exc = "" on a normal return, the name of  *)
(* the Python exception otherwise.                                         *)
(***************************************************************************)
EXTENDS Integers, Sequences, FiniteSets, TLC

VARIABLES
    pc,                 \* position of the program under the specification
    error_content,      \* extract_error_type: its argument
    category,           \* extract_error_type: what the call did, [exc, val]
    file,               \* parse_jsonl_for_errors: the file behind file_path
    errors,             \* parse_jsonl_for_errors: the list it returned
    exists,             \* main: projects_dir.exists()
    tree,               \* main: the .jsonl files under projects_dir, in glob order
    jsonl_files,        \* main: list(projects_dir.glob('**/*.jsonl'))
    i,                  \* main: number of files scanned so far
    all_errors,         \* main: the flat list of records
    errors_by_category, \* main: [keys: labels in insertion order, groups: label -> records]
    error_jsonl,        \* the lines of error.jsonl (parsed), <<>> while not written
    summary,            \* the document of error_summary.json
    written             \* the output files that exist

vars == <<pc, error_content, category, file, errors, exists, tree, jsonl_files,
          i, all_errors, errors_by_category, error_jsonl, summary, written>>

-----------------------------------------------------------------------------
(* Bounds *)

MaxFrags == 2
MaxLines == 3
MaxFiles == 2

-----------------------------------------------------------------------------
(* Characters and strings *)

Char(s, k) == SubSeq(s, k, k)

UpperCase == "ABCDEFGHIJKLMNOPQRSTUVWXYZ"
LowerCase == "abcdefghijklmnopqrstuvwxyz"
Digits == "0123456789"
\* The printable ASCII characters in code point order: 32 (space) to 95, and
\* 97 to 126 (96, the grave accent, occurs in no text of the model).
AsciiLow == " !\"#$%&'()*+,-./0123456789:;<=>?@ABCDEFGHIJKLMNOPQRSTUVWXYZ[\\]^_"
AsciiHigh == "abcdefghijklmnopqrstuvwxyz{|}~"

IndexIn(c, table) ==
    IF \E k \in 1..Len(table) : Char(table, k) = c
    THEN CHOOSE k \in 1..Len(table) : Char(table, k) = c
    ELSE 0

CharsOf(table) == { Char(table, k) : k \in 1..Len(table) }

\* ord(c), as a table
OrdTable ==
    [c \in CharsOf(AsciiLow) \cup CharsOf(AsciiHigh) \cup {"\n"} |->
        IF c = "\n" THEN 10
        ELSE IF IndexIn(c, AsciiLow) > 0 THEN IndexIn(c, AsciiLow) + 31
        ELSE IndexIn(c, AsciiHigh) + 96]

Ord(c) == OrdTable[c]

DigitValue == [c \in CharsOf(Digits) |-> IndexIn(c, Digits) - 1]

IsDigit(c) == c \in DOMAIN DigitValue

LowerTable == [c \in CharsOf(UpperCase) |-> Char(LowerCase, IndexIn(c, UpperCase))]

\* Case folding of re.IGNORECASE on ASCII letters.
Lower(c) == IF c \in DOMAIN LowerTable THEN LowerTable[c] ELSE c

\* Python's < on str: by code point, a proper prefix is smaller.
RECURSIVE StrLess(_, _)
StrLess(a, b) ==
    IF Len(b) = 0 THEN FALSE
    ELSE IF Len(a) = 0 THEN TRUE
    ELSE IF Ord(Head(a)) < Ord(Head(b)) THEN TRUE
    ELSE IF Ord(Head(a)) > Ord(Head(b)) THEN FALSE
    ELSE StrLess(Tail(a), Tail(b))

\* `needle in hay` on str.
Contains(hay, needle) ==
    \E k \in 1..(Len(hay) + 1) :
        /\ k + Len(needle) - 1 <= Len(hay)
        /\ SubSeq(hay, k, k + Len(needle) - 1) = needle

IsSpace(c) == c \in {" ", "\t", "\n", "\r"}

\* str.strip()
RECURSIVE LStrip(_)
LStrip(s) == IF Len(s) > 0 /\ IsSpace(Head(s)) THEN LStrip(Tail(s)) ELSE s

RECURSIVE RStrip(_)
RStrip(s) ==
    IF Len(s) > 0 /\ IsSpace(Char(s, Len(s)))
    THEN RStrip(SubSeq(s, 1, Len(s) - 1))
    ELSE s

Strip(s) == RStrip(LStrip(s))

-----------------------------------------------------------------------------
(* Values and calls *)

Str(s) == [t |-> "str", s |-> s]
Num(n) == [t |-> "num", n |-> n]
Bool(b) == [t |-> "bool", b |-> b]
Null == [t |-> "null"]
List(l) == [t |-> "list", l |-> l]
Obj(o) == [t |-> "obj", o |-> o]

Ret(v) == [exc |-> "", val |-> v]
Raise(e) == [exc |-> e, val |-> Null]

-----------------------------------------------------------------------------
(* re.search(pattern, string, re.IGNORECASE) for the pattern syntax the     *)
(* table uses: literal characters, \d, ., and the postfix + and *.          *)

AtomLen(p, pi) == IF Char(p, pi) = "\\" THEN 2 ELSE 1

AtomMatches(p, pi, c) ==
    IF Char(p, pi) = "\\" THEN Char(p, pi + 1) = "d" /\ IsDigit(c)
    ELSE IF Char(p, pi) = "." THEN c # "\n"
    ELSE Lower(c) = Lower(Char(p, pi))

RECURSIVE MatchHere(_, _, _, _)
RECURSIVE MatchStar(_, _, _, _)

\* Does p from pi on match a prefix of s from si on?
MatchHere(p, pi, s, si) ==
    IF pi > Len(p) THEN TRUE
    ELSE LET n == AtomLen(p, pi)
             q == IF pi + n <= Len(p) THEN Char(p, pi + n) ELSE ""
             here == si <= Len(s) /\ AtomMatches(p, pi, Char(s, si))
         IN IF q = "*" THEN MatchStar(p, pi, s, si)
            ELSE IF q = "+" THEN here /\ MatchStar(p, pi, s, si + 1)
            ELSE here /\ MatchHere(p, pi + n, s, si + 1)

\* The atom at pi, zero or more times, then the rest of p after its quantifier.
MatchStar(p, pi, s, si) ==
    \/ MatchHere(p, pi + AtomLen(p, pi) + 1, s, si)
    \/ /\ si <= Len(s)
       /\ AtomMatches(p, pi, Char(s, si))
       /\ MatchStar(p, pi, s, si + 1)

re_search(p, s) == \E si \in 1..(Len(s) + 1) : MatchHere(p, 1, s, si)

-----------------------------------------------------------------------------
(* extract_error_type *)

error_patterns == <<
    <<"Exit code \\d+", "Exit Code Error">>,
    <<"ENOENT", "File Not Found">>,
    <<"EISDIR", "Directory Operation Error">>,
    <<"EACCES", "Permission Denied">>,
    <<"EEXIST", "File Already Exists">>,
    <<"File does not exist", "File Not Found">>,
    <<"command not found", "Command Not Found">>,
    <<"No such file or directory", "File Not Found">>,
    <<"syntax error", "Syntax Error">>,
    <<"type.*Error", "Type Error">>,
    <<"Cannot find", "Not Found Error">>,
    <<"timeout", "Timeout Error">>,
    <<"connection", "Connection Error">> >>

OtherError == "Other Error"

\* The for loop over error_patterns from rule k on.
RECURSIVE FirstMatchReversed(_, _)
FirstMatchReversed(s, k) ==
    IF k < 1 THEN OtherError
    ELSE IF re_search(error_patterns[k][1], s) THEN error_patterns[k][2]
    ELSE FirstMatchReversed(s, k - 1)

RECURSIVE FirstMatch(_, _)
FirstMatch(s, k) ==
    IF k > Len(error_patterns) THEN OtherError
    ELSE IF re_search(error_patterns[k][1], s) THEN error_patterns[k][2]
    ELSE FirstMatch(s, k + 1)

\* Variant: the table walked from its last rule.
extract_error_type_reversed(v) ==
    IF v.t # "str" THEN Raise("TypeError") ELSE Ret(FirstMatchReversed(v.s, Len(error_patterns)))

\* re.search raises TypeError on anything but a str.
extract_error_type(v) ==
    IF v.t # "str" THEN Raise("TypeError") ELSE Ret(FirstMatch(v.s, 1))

-----------------------------------------------------------------------------
(* json.loads on one line of text.  The grammar is JSON's: objects, arrays, *)
(* strings, integers, true, false, null, white space between tokens.  The   *)
(* lines of the model hold no fraction, exponent, \b, \f or \uXXXX.         *)

CharAt(s, p) == IF p >= 1 /\ p <= Len(s) THEN SubSeq(s, p, p) ELSE ""

Fail == [ok |-> FALSE]
Parsed(v, p) == [ok |-> TRUE, v |-> v, pos |-> p]

EmptyDict == [k \in {} |-> Null]

RECURSIVE SkipWs(_, _)
SkipWs(s, p) == IF IsSpace(CharAt(s, p)) THEN SkipWs(s, p + 1) ELSE p

\* The characters of a string literal from p (after the opening quote) on.
RECURSIVE ParseChars(_, _, _)
ParseChars(s, p, acc) ==
    LET c == CharAt(s, p) IN
    IF c = "" THEN Fail
    ELSE IF c = "\"" THEN Parsed(acc, p + 1)
    ELSE IF c = "\\" THEN
        LET e == CharAt(s, p + 1) IN
        IF e \in {"\"", "\\", "/"} THEN ParseChars(s, p + 2, acc \o e)
        ELSE IF e = "n" THEN ParseChars(s, p + 2, acc \o "\n")
        ELSE IF e = "t" THEN ParseChars(s, p + 2, acc \o "\t")
        ELSE IF e = "r" THEN ParseChars(s, p + 2, acc \o "\r")
        ELSE Fail
    ELSE IF c \in {"\n", "\t", "\r"} THEN Fail
    ELSE ParseChars(s, p + 1, acc \o c)

ParseString(s, p) == IF CharAt(s, p) = "\"" THEN ParseChars(s, p + 1, "") ELSE Fail

RECURSIVE ParseDigits(_, _, _)
ParseDigits(s, p, acc) ==
    IF IsDigit(CharAt(s, p))
    THEN ParseDigits(s, p + 1, acc * 10 + DigitValue[CharAt(s, p)])
    ELSE Parsed(acc, p)

\* -?(0|[1-9][0-9]*)
ParseNumber(s, p) ==
    LET neg == CharAt(s, p) = "-"
        q == IF neg THEN p + 1 ELSE p
    IN IF ~IsDigit(CharAt(s, q)) THEN Fail
       ELSE LET d == IF CharAt(s, q) = "0" THEN Parsed(0, q + 1) ELSE ParseDigits(s, q, 0)
            IN Parsed(Num(IF neg THEN 0 - d.v ELSE d.v), d.pos)

RECURSIVE ParseValue(_, _)
RECURSIVE ParseItems(_, _, _)
RECURSIVE ParsePairs(_, _, _)

\* The items of an array from p on, p at the first character of an item.
ParseItems(s, p, acc) ==
    LET r == ParseValue(s, p) IN
    IF ~r.ok THEN Fail
    ELSE LET q == SkipWs(s, r.pos)
             c == CharAt(s, q)
         IN IF c = "]" THEN Parsed(List(Append(acc, r.v)), q + 1)
            ELSE IF c = "," THEN ParseItems(s, SkipWs(s, q + 1), Append(acc, r.v))
            ELSE Fail

\* The pairs of an object from p on, p at the opening quote of a key.  A key
\* given twice keeps its last value.
ParsePairs(s, p, acc) ==
    LET k == ParseString(s, p) IN
    IF ~k.ok THEN Fail
    ELSE LET q == SkipWs(s, k.pos) IN
         IF CharAt(s, q) # ":" THEN Fail
         ELSE LET r == ParseValue(s, SkipWs(s, q + 1)) IN
              IF ~r.ok THEN Fail
              ELSE LET q2 == SkipWs(s, r.pos)
                       c == CharAt(s, q2)
                       acc2 == (k.v :> r.v) @@ acc
                   IN IF c = "}" THEN Parsed(Obj(acc2), q2 + 1)
                      ELSE IF c = "," THEN ParsePairs(s, SkipWs(s, q2 + 1), acc2)
                      ELSE Fail

ParseValue(s, p) ==
    LET c == CharAt(s, p) IN
    IF c = "{" THEN
        LET q == SkipWs(s, p + 1) IN
        IF CharAt(s, q) = "}" THEN Parsed(Obj(EmptyDict), q + 1)
        ELSE ParsePairs(s, q, EmptyDict)
    ELSE IF c = "[" THEN
        LET q == SkipWs(s, p + 1) IN
        IF CharAt(s, q) = "]" THEN Parsed(List(<<>>), q + 1)
        ELSE ParseItems(s, q, <<>>)
    ELSE IF c = "\"" THEN
        LET r == ParseString(s, p) IN
        IF r.ok THEN Parsed(Str(r.v), r.pos) ELSE Fail
    ELSE IF p + 3 <= Len(s) /\ SubSeq(s, p, p + 3) = "true" THEN Parsed(Bool(TRUE), p + 4)
    ELSE IF p + 4 <= Len(s) /\ SubSeq(s, p, p + 4) = "false" THEN Parsed(Bool(FALSE), p + 5)
    ELSE IF p + 3 <= Len(s) /\ SubSeq(s, p, p + 3) = "null" THEN Parsed(Null, p + 4)
    ELSE ParseNumber(s, p)

\* json.loads: one value, white space around it, nothing after it.
json_loads(s) ==
    LET r == ParseValue(s, SkipWs(s, 1)) IN
    IF r.ok /\ SkipWs(s, r.pos) = Len(s) + 1 THEN Ret(r.v) ELSE Raise("JSONDecodeError")

-----------------------------------------------------------------------------
(* parse_jsonl_for_errors *)

\* dict.get(key, default)
Get(d, k, default) == IF k \in DOMAIN d.o THEN d.o[k] ELSE default

\* bool(v)
Truthy(v) ==
    CASE v.t = "null" -> FALSE
      [] v.t = "bool" -> v.b
      [] v.t = "num" -> v.n # 0
      [] v.t = "str" -> v.s # ""
      [] v.t = "list" -> v.l # <<>>
      [] v.t = "obj" -> DOMAIN v.o # {}

IsTrue(v) == v.t = "bool" /\ v.b

Marker == "\"is_error\":true"

\* The dict built for one error item, before it is categorized.
ErrorInfo(file_path, line_num, data, item) ==
    [source_file |-> file_path,
     line_number |-> line_num,
     uuid |-> Get(data, "uuid", Null),
     timestamp |-> Get(data, "timestamp", Null),
     session_id |-> Get(data, "sessionId", Null),
     agent_id |-> Get(data, "agentId", Null),
     cwd |-> Get(data, "cwd", Null),
     tool_use_id |-> Get(item, "tool_use_id", Null),
     error_content |-> Get(item, "content", Str("")),
     tool_use_result |-> Get(data, "toolUseResult", Str("")),
     full_line |-> data]

WithCategory(info, label) ==
    [k \in DOMAIN info \cup {"error_category"} |->
        IF k = "error_category" THEN label ELSE info[k]]

\* The loop over content from item k on: the records appended, and the
\* exception that ended the loop, if one did.
RECURSIVE ItemLoop(_, _, _, _, _, _)
ItemLoop(file_path, line_num, data, content, k, acc) ==
    IF k > Len(content) THEN [exc |-> "", recs |-> acc]
    ELSE LET item == content[k] IN
         IF item.t = "obj" /\ IsTrue(Get(item, "is_error", Null))
         THEN LET info == ErrorInfo(file_path, line_num, data, item)
                  c == extract_error_type(info.error_content)
              IN IF c.exc # "" THEN [exc |-> c.exc, recs |-> acc]
                 ELSE ItemLoop(file_path, line_num, data, content, k + 1,
                               Append(acc, WithCategory(info, c.val)))
         ELSE ItemLoop(file_path, line_num, data, content, k + 1, acc)

\* The body of the try for one parsed line.
Extract(file_path, line_num, data) ==
    IF data.t # "obj" THEN [exc |-> "AttributeError", recs |-> <<>>]
    ELSE LET message == Get(data, "message", Obj(EmptyDict)) IN
         IF message.t # "obj" THEN [exc |-> "AttributeError", recs |-> <<>>]
         ELSE LET content == Get(message, "content", Null) IN
              IF Truthy(content) /\ content.t = "list"
              THEN ItemLoop(file_path, line_num, data, content.l, 1, <<>>)
              ELSE [exc |-> "", recs |-> <<>>]

\* One iteration of the loop over the lines: what became of the line (how),
\* the records it appended, and the exception that left the loop (exc).
ProcessLine(file_path, line_num, raw) ==
    LET line == Strip(raw) IN
    IF line = "" THEN [how |-> "blank", exc |-> "", recs |-> <<>>]
    ELSE IF ~Contains(line, Marker) THEN [how |-> "no_marker", exc |-> "", recs |-> <<>>]
    ELSE LET r == json_loads(line) IN
         IF r.exc # "" THEN [how |-> "decode_error", exc |-> "", recs |-> <<>>]
         ELSE LET x == Extract(file_path, line_num, r.val)
              IN [how |-> "parsed", exc |-> x.exc, recs |-> x.recs]

\* The loop over the lines from line_num on.  An exception that is not a
\* JSONDecodeError leaves the loop: the outer handler prints it.
RECURSIVE ScanLines(_, _, _)
ScanLines(file_path, lines, line_num) ==
    IF line_num > Len(lines) THEN <<>>
    ELSE LET r == ProcessLine(file_path, line_num, lines[line_num]) IN
         IF r.exc # "" THEN r.recs
         ELSE r.recs \o ScanLines(file_path, lines, line_num + 1)

\* A file that cannot be opened raises in open(): nothing was appended.
parse_jsonl_for_errors(f) ==
    IF ~f.readable THEN <<>> ELSE ScanLines(f.path, f.lines, 1)

-----------------------------------------------------------------------------
(* Quiescent values of the variables a specification does not use *)

NoFile == [path |-> "", readable |-> FALSE, lines |-> <<>>]
NoGroups == [keys |-> <<>>, groups |-> EmptyDict]

ClassifyIdle ==
    /\ error_content = Null
    /\ category = Ret("")

ScanIdle ==
    /\ file = NoFile
    /\ errors = <<>>

MainIdle ==
    /\ exists = FALSE
    /\ tree = <<>>
    /\ jsonl_files = <<>>
    /\ i = 0
    /\ all_errors = <<>>
    /\ errors_by_category = NoGroups
    /\ error_jsonl = <<>>
    /\ summary = Null
    /\ written = {}

classify_vars == <<error_content, category>>
scan_vars == <<file, errors>>
main_vars == <<exists, tree, jsonl_files, i, all_errors, errors_by_category,
               error_jsonl, summary, written>>

-----------------------------------------------------------------------------
(* The classifier on its own: a message is drawn, extract_error_type is     *)
(* called on it.                                                            *)

\* Pieces of message text: what the rules look for, in the case the tools
\* print and in other cases, and text no rule looks for.
Fragments == {
    "Exit code ", "exit CODE", "1", "27", "ENOENT", "enoent", "EISDIR", "EACCES",
    "EEXIST", "File does not exist", "command not found",
    "No such file or directory", "Syntax Error", "TypeError", "type", "Error",
    "Cannot find", "timeout", "Connection", " ", "\nerror", ": boom" }

RECURSIVE Concat(_)
Concat(frags) == IF frags = <<>> THEN "" ELSE Head(frags) \o Concat(Tail(frags))

Messages == { Concat(fs) : fs \in UNION { [1..n -> Fragments] : n \in 0..MaxFrags } }

\* What item.get('content', '') can be: a string, or any other JSON value.
NonStrings == { Null, Num(0), Num(42), Bool(TRUE), List(<<>>), List(<<Str("timeout")>>),
                Obj(EmptyDict), Obj([type |-> Str("text"), text |-> Str("ENOENT")]) }

ContentValues == { Str(m) : m \in Messages } \cup NonStrings

InitClassify ==
    /\ pc = "call"
    /\ error_content \in ContentValues
    /\ category = Ret("")
    /\ ScanIdle
    /\ MainIdle

Classify ==
    /\ pc = "call"
    /\ category' = extract_error_type(error_content)
    /\ pc' = IF category'.exc = "" THEN "returned" ELSE "raised"
    /\ UNCHANGED <<error_content, scan_vars, main_vars>>

NextClassify == Classify

SpecClassify == InitClassify /\ [][NextClassify]_vars

-----------------------------------------------------------------------------
(* Claims about the classifier *)

RECURSIVE LowerStr(_)
LowerStr(s) == IF Len(s) = 0 THEN "" ELSE Lower(Head(s)) \o LowerStr(Tail(s))

At(s, p, w) == p + Len(w) - 1 <= Len(s) /\ SubSeq(s, p, p + Len(w) - 1) = w

\* What it means for rule k's pattern to be found in s, said without the
\* matcher: rule 1 is "exit code " and a digit, rule 10 is "type" and a later
\* "error" on the same line, every other rule is its text; all ignoring case
\* (low is s in lower case).
Found(k, s, low) ==
    IF k = 1 THEN
        \E p \in 1..Len(s) : At(low, p, "exit code ") /\ IsDigit(CharAt(s, p + 10))
    ELSE IF k = 10 THEN
        \E p \in 1..Len(s) :
            /\ At(low, p, "type")
            /\ \E q \in (p + 4)..Len(s) :
                /\ At(low, q, "error")
                /\ \A m \in (p + 4)..(q - 1) : CharAt(s, m) # "\n"
    ELSE \E p \in 1..Len(s) : At(low, p, LowerStr(error_patterns[k][1]))

FoundRules(s) ==
    LET low == LowerStr(s) IN { k \in 1..Len(error_patterns) : Found(k, s, low) }

Least(S) == CHOOSE k \in S : \A m \in S : k <= m

KnownLabels == { error_patterns[k][2] : k \in 1..Len(error_patterns) } \cup { OtherError }

\* C1: on a message string the classifier returns the label of the first
\* rule of the table whose pattern is found in it, ignoring case, and
\* "Other Error" when no rule's pattern is found.
C1_FirstRuleWins ==
    (pc # "call" /\ error_content.t = "str") =>
        /\ pc = "returned"
        /\ LET found == FoundRules(error_content.s) IN
           category.val = IF found = {} THEN OtherError
                          ELSE error_patterns[Least(found)][2]

\* A message with "timeout" (rule 12) and "connection" (rule 13): rule 12 won.
C1_Witness ==
    /\ pc = "returned"
    /\ error_content = Str("Connectiontimeout")
    /\ FoundRules(error_content.s) = {12, 13}
    /\ category.val = "Timeout Error"

\* C5: the classifier never fails: on every value an error item can carry
\* it returns one of the known labels and does not raise.
C5_NeverFails ==
    pc # "call" => (category.exc = "" /\ category.val \in KnownLabels)

-----------------------------------------------------------------------------
(* The scanner on its own: a file is drawn, parse_jsonl_for_errors is       *)
(* called on it.                                                            *)

ErrItem(msg) == "{\"tool_use_id\":\"toolu_1\",\"is_error\":true,\"content\":\"" \o msg \o "\"}"

ScanLineSet == {
    \* one error item
    "{\"uuid\":\"u1\",\"timestamp\":\"2024-01-01T00:00:00Z\",\"message\":{\"content\":[" \o ErrItem("ENOENT") \o "]}}",
    \* two error items around a text item; white space around the line
    "  {\"message\":{\"content\":[" \o ErrItem("Exit code 1") \o ",{\"type\":\"text\"}," \o ErrItem("timeout") \o "]}} ",
    \* no error item, no marker
    "{\"message\":{\"content\":[{\"is_error\":false,\"content\":\"ok\"},{\"type\":\"text\"}]}}",
    \* no error item, the marker in another field
    "{\"message\":{\"content\":[{\"is_error\":false}]},\"toolUseResult\":{\"is_error\":true}}",
    \* the content is text, not a list
    "{\"message\":{\"content\":\"plain\"},\"toolUseResult\":{\"is_error\":true}}",
    \* not JSON: cut short, with the marker
    "{\"message\":{\"content\":[{\"is_error\":true,",
    \* not JSON, no marker
    "Traceback (most recent call last):",
    \* blank
    "",
    "   ",
    \* a JSON list
    "[{\"is_error\":true}]",
    \* the message is not an object
    "{\"message\":null,\"toolUseResult\":{\"is_error\":true}}",
    \* an error item whose content is a list of blocks, after one whose content is text
    "{\"message\":{\"content\":[" \o ErrItem("EACCES") \o ",{\"is_error\":true,\"content\":[{\"type\":\"text\",\"text\":\"timeout\"}]}]}}",
    \* an error item whose content is null
    "{\"message\":{\"content\":[{\"is_error\":true,\"content\":null}]}}",
    \* one error item, written with a space after each colon
    "{\"message\": {\"content\": [{\"is_error\": true, \"content\": \"command not found\"}]}}" }

ScanFiles ==
    { [path |-> "a.jsonl", readable |-> r, lines |-> ls] :
        r \in BOOLEAN, ls \in UNION { [1..n -> ScanLineSet] : n \in 0..MaxLines } }

InitScan ==
    /\ pc = "call"
    /\ file \in ScanFiles
    /\ errors = <<>>
    /\ ClassifyIdle
    /\ MainIdle

\* open() raises: the outer handler prints, the empty list is returned.
ScanOpenFails ==
    /\ pc = "call"
    /\ ~file.readable
    /\ errors' = parse_jsonl_for_errors(file)
    /\ pc' = "returned"
    /\ UNCHANGED <<file, classify_vars, main_vars>>

ScanFile ==
    /\ pc = "call"
    /\ file.readable
    /\ errors' = parse_jsonl_for_errors(file)
    /\ pc' = "returned"
    /\ UNCHANGED <<file, classify_vars, main_vars>>

NextScan == ScanOpenFails \/ ScanFile

SpecScan == InitScan /\ [][NextScan]_vars

-----------------------------------------------------------------------------
(* Claims about the scanner *)

RECURSIVE Flatten(_)
Flatten(seqs) == IF seqs = <<>> THEN <<>> ELSE Head(seqs) \o Flatten(Tail(seqs))

\* What the loop body does with line k of the scanned file, taken alone.
LineResult(k) == ProcessLine(file.path, k, file.lines[k])

InvalidJson(raw) == Strip(raw) # "" /\ json_loads(Strip(raw)).exc # ""

\* Something goes wrong on line k: it is not JSON, or its processing raises.
LineFails(k) == InvalidJson(file.lines[k]) \/ LineResult(k).exc # ""

\* C2: in a file with a line that is not valid JSON, that line contributes
\* no record and the scan returns exactly the records of all the other
\* lines, in file order, each with its own line number.
C2_InvalidJsonIsolated ==
    (pc = "returned" /\ file.readable /\ \E k \in 1..Len(file.lines) : InvalidJson(file.lines[k])) =>
        errors = Flatten([k \in 1..Len(file.lines) |->
                            IF InvalidJson(file.lines[k]) THEN <<>> ELSE LineResult(k).recs])

\* What does hold of an invalid line: it is to the scan what a blank line
\* is.  The scan of a file, and of the same file with its invalid lines
\* emptied, return the same list.
InvalidJsonSkipped ==
    (pc = "returned" /\ file.readable) =>
        errors = ScanLines(file.path,
                           [k \in 1..Len(file.lines) |->
                               IF InvalidJson(file.lines[k]) THEN "" ELSE file.lines[k]],
                           1)

\* The scanner without the pre-check: every line that is not blank is parsed.
ProcessLineParsed(file_path, line_num, raw) ==
    LET line == Strip(raw) IN
    IF line = "" THEN [how |-> "blank", exc |-> "", recs |-> <<>>]
    ELSE LET r == json_loads(line) IN
         IF r.exc # "" THEN [how |-> "decode_error", exc |-> "", recs |-> <<>>]
         ELSE LET x == Extract(file_path, line_num, r.val)
              IN [how |-> "parsed", exc |-> x.exc, recs |-> x.recs]

RECURSIVE ScanLinesParsed(_, _, _)
ScanLinesParsed(file_path, lines, line_num) ==
    IF line_num > Len(lines) THEN <<>>
    ELSE LET r == ProcessLineParsed(file_path, line_num, lines[line_num]) IN
         IF r.exc # "" THEN r.recs
         ELSE r.recs \o ScanLinesParsed(file_path, lines, line_num + 1)

\* C3: the pre-check is a pure optimization: the scan returns the records
\* that parsing every line and keeping the error-flagged items returns.
C3_PrecheckIsOptimization ==
    (pc = "returned" /\ file.readable) =>
        errors = ScanLinesParsed(file.path, file.lines, 1)

\* C4: a failure on a line is terminal for that line only: the line yields
\* no record, and the records of every other line are returned.
C4_FailureIsolated ==
    (pc = "returned" /\ file.readable) =>
        errors = Flatten([k \in 1..Len(file.lines) |->
                            IF LineFails(k) THEN <<>> ELSE LineResult(k).recs])

\* The parsed entry of a line, when it has a list as message.content.
ContentList(raw) ==
    LET r == json_loads(Strip(raw)) IN
    IF r.exc # "" \/ r.val.t # "obj" THEN Null
    ELSE LET message == Get(r.val, "message", Null) IN
         IF message.t # "obj" THEN Null
         ELSE LET content == Get(message, "content", Null) IN
              IF content.t = "list" THEN content ELSE Null

IsErrorItem(item) == item.t = "obj" /\ IsTrue(Get(item, "is_error", Null))

ContentOf(item) == Get(item, "content", Str(""))

\* C7: a line whose entry has a list as message.content yields one record
\* per item that is an object with is_error true, in item order, all with
\* the line's number.
C7_OneRecordPerErrorItem ==
    (pc = "returned" /\ file.readable) =>
        \A k \in 1..Len(file.lines) :
            LET content == ContentList(file.lines[k]) IN
            content.t = "list" =>
                LET recs == SelectSeq(errors, LAMBDA e : e.line_number = k)
                    items == SelectSeq(content.l, IsErrorItem)
                IN [m \in 1..Len(recs) |-> recs[m].error_content]
                      = [m \in 1..Len(items) |-> ContentOf(items[m])]

-----------------------------------------------------------------------------
(* main: grouping, sorting, the two output files *)

RecentCap == 20
ExampleCap == 100
ContentCap == 500

\* errors_by_category[error['error_category']].append(error)
AddToGroup(g, e) ==
    LET c == e.error_category IN
    IF c \in DOMAIN g.groups
    THEN [g EXCEPT !.groups[c] = Append(@, e)]
    ELSE [keys |-> Append(g.keys, c), groups |-> (c :> <<e>>) @@ g.groups]

RECURSIVE GroupFrom(_, _)
GroupFrom(g, recs) ==
    IF recs = <<>> THEN g ELSE GroupFrom(AddToGroup(g, Head(recs)), Tail(recs))

\* The loop that fills errors_by_category.
Segment(recs) == GroupFrom(NoGroups, recs)

\* sorted(errors_by_category.keys()): ascending, by code point.
RECURSIVE InsertLabel(_, _)
InsertLabel(sorted, x) ==
    IF sorted = <<>> THEN <<x>>
    ELSE IF StrLess(x, Head(sorted)) THEN <<x>> \o sorted
    ELSE <<Head(sorted)>> \o InsertLabel(Tail(sorted), x)

RECURSIVE SortLabels(_)
SortLabels(labels) ==
    IF labels = <<>> THEN <<>>
    ELSE InsertLabel(SortLabels(SubSeq(labels, 1, Len(labels) - 1)), labels[Len(labels)])

\* Variant: len() of the dict of groups, not of the list of records.
MetadataCountingGroups(recs, files, g) ==
    [type |-> "metadata",
     total_errors |-> Len(g.keys),
     files_scanned |-> Len(files),
     categories |-> [c \in DOMAIN g.groups |-> Len(g.groups[c])]]

\* The dict written first.
Metadata(recs, files, g) ==
    [type |-> "metadata",
     total_errors |-> Len(recs),
     files_scanned |-> Len(files),
     categories |-> [c \in DOMAIN g.groups |-> Len(g.groups[c])]]

CategoryHeader(g, c) ==
    [type |-> "category_header", category |-> c, count |-> Len(g.groups[c])]

\* The loop over the categories: a header, then the group.
RECURSIVE CategoryBlocks(_, _)
CategoryBlocks(g, labels) ==
    IF labels = <<>> THEN <<>>
    ELSE <<CategoryHeader(g, Head(labels))>> \o g.groups[Head(labels)]
         \o CategoryBlocks(g, Tail(labels))

\* Variant: the categories in the order the dict holds them.
ErrorJsonlUnsorted(recs, files, g) ==
    <<Metadata(recs, files, g)>> \o CategoryBlocks(g, g.keys)

\* What is written to error.jsonl, one dict a line.
ErrorJsonl(recs, files, g) ==
    <<Metadata(recs, files, g)>> \o CategoryBlocks(g, SortLabels(g.keys))

\* How Python orders two sort keys: str with str, numbers with numbers;
\* None with anything raises TypeError.  (No line of the model has a list
\* or an object as its timestamp.)
KeyKind(v) ==
    IF v.t = "str" THEN "str" ELSE IF v.t \in {"num", "bool"} THEN "num" ELSE "other"

NumOf(v) == IF v.t = "num" THEN v.n ELSE IF v.b THEN 1 ELSE 0

KeyLess(a, b) == IF a.t = "str" THEN StrLess(a.s, b.s) ELSE NumOf(a) < NumOf(b)

\* sorted() compares every element with another one: with two or more
\* records, one key that cannot be compared raises.
SortRaises(recs) ==
    LET kinds == { KeyKind(recs[k].timestamp) : k \in 1..Len(recs) } IN
    Len(recs) >= 2 /\ ("other" \in kinds \/ Cardinality(kinds) > 1)

\* x placed after every record whose key is not smaller: descending, and
\* records with equal keys keep their order (reverse=True is stable).
RECURSIVE InsertDesc(_, _)
InsertDesc(sorted, x) ==
    IF sorted = <<>> THEN <<x>>
    ELSE IF KeyLess(Head(sorted).timestamp, x.timestamp) THEN <<x>> \o sorted
    ELSE <<Head(sorted)>> \o InsertDesc(Tail(sorted), x)

RECURSIVE InsertAsc(_, _)
InsertAsc(sorted, x) ==
    IF sorted = <<>> THEN <<x>>
    ELSE IF KeyLess(x.timestamp, Head(sorted).timestamp) THEN <<x>> \o sorted
    ELSE <<Head(sorted)>> \o InsertAsc(Tail(sorted), x)

\* Variant: reverse=True left out.
RECURSIVE SortedByTimestampAsc(_)
SortedByTimestampAsc(recs) ==
    IF recs = <<>> THEN <<>>
    ELSE InsertAsc(SortedByTimestampAsc(SubSeq(recs, 1, Len(recs) - 1)), recs[Len(recs)])

\* sorted(all_errors, key=lambda x: x['timestamp'], reverse=True)
RECURSIVE SortedByTimestamp(_)
SortedByTimestamp(recs) ==
    IF recs = <<>> THEN <<>>
    ELSE InsertDesc(SortedByTimestamp(SubSeq(recs, 1, Len(recs) - 1)), recs[Len(recs)])

\* seq[:n]
Take(seq, n) == SubSeq(seq, 1, IF Len(seq) < n THEN Len(seq) ELSE n)

\* Variant: the 20 oldest records.
RecentErrorsAscending(recs) == Take(SortedByTimestampAsc(recs), RecentCap)

\* sorted(...)[:20]
RecentErrors(recs) == Take(SortedByTimestamp(recs), RecentCap)

Example(e) ==
    [timestamp |-> e.timestamp,
     session_id |-> e.session_id,
     error_content |-> Str(Take(e.error_content.s, ContentCap))]

Examples(recs) == [k \in 1..Len(Take(recs, ExampleCap)) |-> Example(recs[k])]

\* The dict dumped to error_summary.json.
Summary(recs, files, g) ==
    [total_errors |-> Len(recs),
     files_scanned |-> Len(files),
     categories |-> [c \in DOMAIN g.groups |->
                        [count |-> Len(g.groups[c]), examples |-> Examples(g.groups[c])]],
     recent_errors |-> RecentErrors(recs)]

-----------------------------------------------------------------------------
(* The files of a run *)

TsTable == <<"2024-01-01T00:00:00Z", "2024-03-01T00:00:00Z", "2024-02-01T00:00:00Z">>

TsOf(j) == TsTable[((j - 1) % Len(TsTable)) + 1]

EntryLine(ts, items) ==
    "{\"timestamp\":\"" \o ts \o "\",\"sessionId\":\"s1\",\"message\":{\"content\":["
        \o items \o "]}}"

\* Five error items of four categories.
BurstLine(j) ==
    EntryLine(TsOf(j),
        ErrItem("ENOENT") \o "," \o ErrItem("connection timeout") \o "," \o ErrItem("Exit code 1")
            \o "," \o ErrItem("boom") \o "," \o ErrItem("No such file or directory"))

SyntaxLine(j) == EntryLine(TsOf(j + 1), ErrItem("syntax error near }"))

\* An entry without a timestamp.
BareLine == "{\"sessionId\":\"s2\",\"message\":{\"content\":[" \o ErrItem("EEXIST") \o "]}}"

CutLine == "{\"timestamp\":\"2024-01-01T00:00:00Z\",\"message\":{\"content\":[{\"is_error\":true"

BurstFile(n) ==
    [path |-> "projects/a/burst" \o Char(Digits, n + 1) \o ".jsonl", readable |-> TRUE, lines |-> [j \in 1..n |-> BurstLine(j)]]

BareFile(n) ==
    [path |-> "projects/b/bare" \o Char(Digits, n + 1) \o ".jsonl", readable |-> TRUE, lines |-> [j \in 1..n |-> BareLine]]

\* Entries with one error item each, every second line cut short.
MixedFile(n) ==
    [path |-> "projects/c/mixed" \o Char(Digits, n + 1) \o ".jsonl", readable |-> TRUE,
     lines |-> [j \in 1..n |-> IF j % 2 = 0 THEN CutLine ELSE SyntaxLine(j)]]

LockedFile == [path |-> "projects/locked.jsonl", readable |-> FALSE, lines |-> <<>>]

MainFiles ==
    { BurstFile(n) : n \in 1..MaxLines } \cup { BareFile(n) : n \in 1..MaxLines }
        \cup { MixedFile(n) : n \in 1..MaxLines } \cup { LockedFile }

\* A directory holds a path once.
Trees ==
    { t \in UNION { [1..n -> MainFiles] : n \in 0..MaxFiles } :
        \A a, b \in 1..Len(t) : a # b => t[a].path # t[b].path }

-----------------------------------------------------------------------------
(* main *)

Init ==
    /\ pc = "start"
    /\ \/ exists = FALSE /\ tree = <<>>
       \/ exists = TRUE /\ tree \in Trees
    /\ jsonl_files = <<>>
    /\ i = 0
    /\ all_errors = <<>>
    /\ errors_by_category = NoGroups
    /\ error_jsonl = <<>>
    /\ summary = Null
    /\ written = {}
    /\ ClassifyIdle
    /\ ScanIdle

\* projects_dir does not exist: a message, and main returns.
RootMissing ==
    /\ pc = "start"
    /\ ~exists
    /\ pc' = "done"
    /\ UNCHANGED <<classify_vars, scan_vars, main_vars>>

Discover ==
    /\ pc = "start"
    /\ exists
    /\ jsonl_files' = tree
    /\ pc' = "scan"
    /\ UNCHANGED <<classify_vars, scan_vars, exists, tree, i, all_errors,
                   errors_by_category, error_jsonl, summary, written>>

\* One iteration of the loop over jsonl_files.
ScanNext ==
    /\ pc = "scan"
    /\ i < Len(jsonl_files)
    /\ all_errors' = all_errors \o parse_jsonl_for_errors(jsonl_files[i + 1])
    /\ i' = i + 1
    /\ UNCHANGED <<pc, classify_vars, scan_vars, exists, tree, jsonl_files,
                   errors_by_category, error_jsonl, summary, written>>

SegmentErrors ==
    /\ pc = "scan"
    /\ i = Len(jsonl_files)
    /\ errors_by_category' = Segment(all_errors)
    /\ pc' = "write_jsonl"
    /\ UNCHANGED <<classify_vars, scan_vars, exists, tree, jsonl_files, i, all_errors,
                   error_jsonl, summary, written>>

WriteErrorJsonl ==
    /\ pc = "write_jsonl"
    /\ error_jsonl' = ErrorJsonl(all_errors, jsonl_files, errors_by_category)
    /\ written' = written \cup {"error.jsonl"}
    /\ pc' = "summarize"
    /\ UNCHANGED <<classify_vars, scan_vars, exists, tree, jsonl_files, i, all_errors,
                   errors_by_category, summary>>

\* sorted() raises while the summary dict is built: the TypeError leaves
\* main, error_summary.json is not opened.
SummaryRaises ==
    /\ pc = "summarize"
    /\ SortRaises(all_errors)
    /\ pc' = "raised"
    /\ UNCHANGED <<classify_vars, scan_vars, main_vars>>

WriteSummary ==
    /\ pc = "summarize"
    /\ ~SortRaises(all_errors)
    /\ summary' = Summary(all_errors, jsonl_files, errors_by_category)
    /\ written' = written \cup {"error_summary.json"}
    /\ pc' = "done"
    /\ UNCHANGED <<classify_vars, scan_vars, exists, tree, jsonl_files, i, all_errors,
                   errors_by_category, error_jsonl>>

Next ==
    \/ RootMissing
    \/ Discover
    \/ ScanNext
    \/ SegmentErrors
    \/ WriteErrorJsonl
    \/ SummaryRaises
    \/ WriteSummary

Spec == Init /\ [][Next]_vars

-----------------------------------------------------------------------------
(* Claims about main *)

BothFiles == {"error.jsonl", "error_summary.json"}

\* C6: no error raises out of main: when the root directory exists, main
\* returns normally, and has then written both output files.
C6_MainNeverRaises ==
    /\ pc # "raised"
    /\ (pc = "done" /\ exists) => written = BothFiles

IsHeader(x) == "type" \in DOMAIN x /\ x.type = "category_header"
IsMetadata(x) == "type" \in DOMAIN x /\ x.type = "metadata"
IsRecord(x) == "error_category" \in DOMAIN x

InCategory(c) == SelectSeq(all_errors, LAMBDA e : e.error_category = c)

HeaderLines == { k \in 1..Len(error_jsonl) : IsHeader(error_jsonl[k]) }

\* C8: error.jsonl is the metadata record, then, for each category that has
\* records, in ascending order of label, a header with the category's count
\* and right after it the records of the category, in the order in which
\* they were collected; every collected record is there once.
C8_SegmentedOutput ==
    "error.jsonl" \in written =>
        /\ IsMetadata(error_jsonl[1])
        /\ \A k \in 2..Len(error_jsonl) : ~IsMetadata(error_jsonl[k])
        /\ Len(error_jsonl) = 1 + Cardinality(HeaderLines) + Len(all_errors)
        /\ Len(error_jsonl) > 1 => 2 \in HeaderLines
        /\ { error_jsonl[k].category : k \in HeaderLines }
              = { all_errors[k].error_category : k \in 1..Len(all_errors) }
        /\ \A k \in HeaderLines :
              LET h == error_jsonl[k]
                  last == k + h.count
              IN /\ h.count = Len(InCategory(h.category))
                 /\ last <= Len(error_jsonl)
                 /\ SubSeq(error_jsonl, k + 1, last) = InCategory(h.category)
                 /\ last < Len(error_jsonl) =>
                       /\ last + 1 \in HeaderLines
                       /\ StrLess(h.category, error_jsonl[last + 1].category)

\* Two files scanned, four categories, one of them with records of both
\* files, the first label written not the first one collected.
C8_Witness ==
    /\ "error.jsonl" \in written
    /\ Cardinality(HeaderLines) >= 4
    /\ errors_by_category.keys[1] # error_jsonl[2].category
    /\ \E k \in HeaderLines :
          Cardinality({ e.source_file : e \in { error_jsonl[m] : m \in (k + 1)..(k + error_jsonl[k].count) } }) >= 2

RECURSIVE SumOver(_, _)
SumOver(f, S) ==
    IF S = {} THEN 0
    ELSE LET x == CHOOSE x \in S : TRUE IN f[x] + SumOver(f, S \ {x})

\* C9: total_errors of the metadata record is the sum of the counts of its
\* categories map, which is the number of records in all the groups, and
\* the number of record lines of error.jsonl.
C9_TotalsAgree ==
    "error.jsonl" \in written =>
        LET m == error_jsonl[1]
            groups == errors_by_category.groups
        IN /\ m.total_errors = SumOver(m.categories, DOMAIN m.categories)
           /\ m.total_errors = SumOver([c \in DOMAIN groups |-> Len(groups[c])], DOMAIN groups)
           /\ m.total_errors = Cardinality({ k \in 1..Len(error_jsonl) : IsRecord(error_jsonl[k]) })

\* Two files scanned or more, six records or more, in several categories.
C9_Witness ==
    /\ "error.jsonl" \in written
    /\ error_jsonl[1].total_errors >= 6
    /\ error_jsonl[1].total_errors # Cardinality(DOMAIN error_jsonl[1].categories)
    /\ Cardinality(DOMAIN error_jsonl[1].categories) >= 2
    /\ error_jsonl[1].files_scanned >= 2

Count(seq, r) == Cardinality({ k \in 1..Len(seq) : seq[k] = r })

Range(seq) == { seq[k] : k \in 1..Len(seq) }

TsLess(a, b) == a.timestamp.t = "str" /\ b.timestamp.t = "str" /\ StrLess(a.timestamp.s, b.timestamp.s)

\* C10: recent_errors holds min(20, n) of the n collected records, in
\* non-increasing order of timestamp, and no record left out of it has a
\* timestamp greater than one in it.
C10_RecentErrors ==
    "error_summary.json" \in written =>
        LET recent == summary.recent_errors IN
        /\ Len(recent) = IF Len(all_errors) < RecentCap THEN Len(all_errors) ELSE RecentCap
        /\ \A r \in Range(recent) : Count(recent, r) <= Count(all_errors, r)
        /\ \A k \in 1..(Len(recent) - 1) : ~TsLess(recent[k], recent[k + 1])
        /\ \A r \in Range(all_errors) :
              Count(recent, r) < Count(all_errors, r) =>
                  \A q \in Range(recent) : ~TsLess(q, r)

\* More than 20 records, collected January, March, February, ...: the list
\* starts in March and ends in January, and a January record is left out.
C10_Witness ==
    /\ "error_summary.json" \in written
    /\ Len(all_errors) > RecentCap
    /\ all_errors[1].timestamp = Str(TsTable[1])
    /\ summary.recent_errors[1].timestamp = Str(TsTable[2])
    /\ summary.recent_errors[RecentCap].timestamp = Str(TsTable[1])
    /\ \E k \in 1..RecentCap : summary.recent_errors[k].timestamp = Str(TsTable[3])
    /\ \E r \in Range(all_errors) :
          r.timestamp = Str(TsTable[1]) /\ r \notin Range(summary.recent_errors)

====
